---- MODULE Spec2Model ----
(***************************************************************************)
(* Model of the cupy backend shim:                                         *)
(*   - cupy_backends/cuda/_softlink.pyx : SoftLink (soft-linking loader),  *)
(*     get_hipfuncname, the two failing stubs;                             *)
(*   - cupy_backends/cupy_lapack.h : the loop-based batched dispatchers    *)
(*     gesvd_loop, geqrf_loop and orgqr_loop, in their CUDA and HIP builds.*)
(* The two components share no state; SpecSoftLink and SpecLapack are the  *)
(* state machines of each.                                                 *)
(***************************************************************************)
EXTENDS Integers, Sequences, FiniteSets, TLC

VARIABLES
    \* ---- build configuration (shared) ----
    hip,                    \* CUPY_HIP_VERSION != 0 / CUPY_USE_HIP defined
    \* ---- _softlink.pyx ----
    CUDA_TO_HIP_MAPPINGS,   \* hipify_torch.cuda_to_hip_mappings.CUDA_TO_HIP_MAPPINGS
    ctor,                   \* "none" | "ok" | "raised": outcome of SoftLink.__init__
    error,                  \* self.error
    prefix,                 \* self.prefix
    cdll,                   \* self._cdll (None or the opened library)
    mandatory,              \* the mandatory flag __init__ was called with
    libname,                \* the libname __init__ was called with
    raised,                 \* the exception __init__ raised (None if it did not)
    warned,                 \* messages passed to warnings.warn
    opened,                 \* library names passed to ctypes.CDLL
    mapped,                 \* names passed to get_hipfuncname
    searched,               \* names passed to getattr(self._cdll, ...)
    gets,                   \* number of get calls made so far
    name,                   \* argument of the last get
    ret,                    \* func_ptr returned by the last get
    lookups,                \* every get so far: [name, ret], in order
    outcome,                \* result of invoking ret
    buffers,                \* caller buffers: "clean" until a vendor function ran
    \* ---- cupy_lapack.h: one dispatch ----
    fn,                     \* "none" | "gesvd_loop" | "geqrf_loop" | "orgqr_loop"
    T,                      \* the template argument (element type)
    args,                   \* the arguments of the call
    pc,                     \* "idle" | "loop" | "return" | "done"
    loc,                    \* the locals: i, A, S, Tau, U, VT, Work, devInfo, k
    status,                 \* the local `status`: [set, value]
    calls,                  \* the vendor calls made so far, in order
    result                  \* the value the dispatcher returned

varsSoftLink == <<CUDA_TO_HIP_MAPPINGS, ctor, error, prefix, cdll, mandatory,
                  libname, raised, warned, opened, mapped, searched, gets,
                  name, ret, lookups, outcome, buffers>>

varsLapack == <<fn, T, args, pc, loc, status, calls, result>>

vars == <<hip, varsSoftLink, varsLapack>>

\* ---------------------------------------------------------------- bounds
MaxGets == 2

\* ------------------------------------------------------------ the values
\* Python's None
None == "None"

\* Library identifiers handed to SoftLink.__init__.
LibNames == {None, "libfoo.so", "libhipfoo.so", "libmissing.so"}

\* The platform loader: the libraries that can be opened and what they export.
\* A name outside the domain cannot be opened (ctypes.CDLL raises OSError).
Libraries ==
    ("libfoo.so" :> <<"foo_bar", "cusolverDnSgesvd", "cusolverDnSorgqr">>) @@
    ("libhipfoo.so" :> <<"hip_bar", "hip_bar2", "late_bar", "foo_bar",
                         "hipsolverDnSgesvd", "foo_qux">>)

LibBase == ("libfoo.so" :> 1000) @@ ("libhipfoo.so" :> 2000)

Prefixes == {"foo_", "cusolverDn"}
Names == {"bar", "qux", "Sgesvd", "Sorgqr"}

\* Mapping tables of the cross-vendor layer: an ordered list of dictionaries,
\* each from a CUDA name to a non-empty tuple whose first item is the HIP name.
Tables ==
    { << >>,
      << ("cusolverDnSgesvd" :> <<"hipsolverDnSgesvd", "rocsolver_sgesvd">>) >>,
      << ("cudaMalloc" :> <<"hipMalloc">>),
         ("foo_bar" :> <<"hip_bar", "hip_bar2">>) @@
         ("cusolverDnSorgqr" :> <<"hipsolverDnSorgqr">>),
         ("foo_bar" :> <<"late_bar">>) @@
         ("cusolverDnSgesvd" :> <<"hipsolverDnSgesvd">>) >>,
      << ("foo_qux" :> <<"foo_qux", "hip_qux">>) >> }

\* Addresses of the two stubs and the null pointer.
NULL == 0
FAIL_UNSUPPORTED == 11
FAIL_NOT_FOUND == 12

\* ------------------------------------------------------ platform helpers
RECURSIVE IndexOf(_, _, _)
IndexOf(seq, x, i) ==
    IF i > Len(seq) THEN 0
    ELSE IF seq[i] = x THEN i ELSE IndexOf(seq, x, i + 1)

\* getattr(self._cdll, funcname, None): the address of the exported symbol,
\* or NULL (None) when the library does not export it.
Getattr(lib, funcname) ==
    LET i == IndexOf(Libraries[lib], funcname, 1)
    IN  IF i = 0 THEN NULL ELSE LibBase[lib] + i

\* Variant: the last listed equivalent of the first matching entry.
RECURSIVE ScanMappingsLast(_, _, _)
ScanMappingsLast(map_list, cudafuncname, i) ==
    IF i > Len(map_list) THEN cudafuncname
    ELSE IF cudafuncname \in DOMAIN map_list[i]
         THEN map_list[i][cudafuncname][Len(map_list[i][cudafuncname])]
         ELSE ScanMappingsLast(map_list, cudafuncname, i + 1)

get_hipfuncname_last(map_list, cudafuncname) ==
    ScanMappingsLast(map_list, cudafuncname, 1)

\* ------------------------------------------------------- get_hipfuncname
RECURSIVE ScanMappings(_, _, _)
ScanMappings(map_list, cudafuncname, i) ==
    IF i > Len(map_list) THEN cudafuncname
    ELSE IF cudafuncname \in DOMAIN map_list[i]
         THEN map_list[i][cudafuncname][1]
         ELSE ScanMappings(map_list, cudafuncname, i + 1)

get_hipfuncname(map_list, cudafuncname) ==
    ScanMappings(map_list, cudafuncname, 1)

\* Variant: the prefix is left out of the looked-up name.
FuncName_noprefix(isHip, map_list, pfx, nm) ==
    IF isHip THEN get_hipfuncname(map_list, nm) ELSE nm

\* The name get looks up: prefix + name, translated in a HIP build.
FuncName(isHip, map_list, pfx, nm) ==
    LET cudafuncname == pfx \o nm
    IN  IF isHip THEN get_hipfuncname(map_list, cudafuncname) ELSE cudafuncname

\* ------------------------------------------------------------- messages
UnavailableError == "RuntimeError: The library is unavailable in the current platform."
OpenError == "OSError: cannot open shared object file"
LoadMsg(lib) == "CuPy failed to load " \o lib \o ": " \o OpenError
UnsupportedMsg == "The requested function is not supported in the current version of the toolkit"
NotFoundMsg == "The requested function could not be found in the library."

\* The entry point the last get returned has not been invoked yet.
NotCalled ==
    [called |-> FALSE, value |-> 0, exception |-> None, message |-> None,
     writes |-> FALSE]

\* Status codes a vendor function returns: zero is success.
VendorStatus == {0, 1, 7}

\* ----------------------------------------------------- lapack: the values
\* Element types the dispatchers are instantiated for (float, double,
\* cuComplex / hipFloatComplex, cuDoubleComplex / hipDoubleComplex).
Types == {"float", "double", "complex", "doublecomplex"}

sizeof(t) ==
    IF t = "float" THEN 4
    ELSE IF t = "double" THEN 8
    ELSE IF t = "complex" THEN 8
    ELSE IF t = "doublecomplex" THEN 16
    ELSE 4  \* int

\* real_type of gesvd_loop: float for float and cuComplex, double otherwise.
real_type(t) == IF t = "float" \/ t = "complex" THEN "float" ELSE "double"

NoArgs ==
    [handle |-> 0, jobu |-> "-", jobvt |-> "-", m |-> 0, n |-> 0, k |-> 0,
     a_ptr |-> 0, lda |-> 0, s_ptr |-> 0, tau_ptr |-> 0, u_ptr |-> 0,
     vt_ptr |-> 0, w_ptr |-> 0, buffersize |-> 0, info_ptr |-> 0,
     batch_size |-> 0, origin_n |-> 0]

NoLocals ==
    [i |-> 0, k |-> 0, A |-> 0, S |-> 0, Tau |-> 0, U |-> 0, VT |-> 0,
     Work |-> 0, devInfo |-> 0]

\* ------------------------------------------------------------------ Init
\* No loader has been constructed.
IdleSoftLink ==
    /\ ctor = "none"
    /\ error = None
    /\ prefix = None
    /\ cdll = None
    /\ mandatory = FALSE
    /\ libname = None
    /\ raised = None
    /\ warned = << >>
    /\ opened = << >>
    /\ mapped = << >>
    /\ searched = << >>
    /\ gets = 0
    /\ name = None
    /\ ret = NULL
    /\ lookups = << >>
    /\ outcome = NotCalled
    /\ buffers = "clean"

\* No dispatch is in progress.
IdleLapack ==
    /\ fn = "none"
    /\ T = None
    /\ args = NoArgs
    /\ pc = "idle"
    /\ loc = NoLocals
    /\ status = [set |-> FALSE, value |-> 0]
    /\ calls = << >>
    /\ result = [returned |-> FALSE, value |-> 0]

InitSoftLink ==
    /\ hip \in BOOLEAN
    /\ CUDA_TO_HIP_MAPPINGS \in Tables
    /\ IdleSoftLink
    /\ IdleLapack

\* Variant: the mandatory flag is ignored, a failed open only warns.
init_result_nomandatory(lib, mand) ==
    IF lib = None
    THEN [error |-> UnavailableError, cdll |-> None, opens |-> << >>,
          warns |-> << >>, raised |-> None, ctor |-> "ok"]
    ELSE IF lib \in DOMAIN Libraries
    THEN [error |-> None, cdll |-> lib, opens |-> <<lib>>,
          warns |-> << >>, raised |-> None, ctor |-> "ok"]
    ELSE [error |-> OpenError, cdll |-> None, opens |-> <<lib>>,
          warns |-> <<LoadMsg(lib)>>, raised |-> None, ctor |-> "ok"]

\* Variant: a failed open always raises, mandatory or not.
init_result_alwaysraise(lib, mand) ==
    IF lib = None
    THEN [error |-> UnavailableError, cdll |-> None, opens |-> << >>,
          warns |-> << >>, raised |-> None, ctor |-> "ok"]
    ELSE IF lib \in DOMAIN Libraries
    THEN [error |-> None, cdll |-> lib, opens |-> <<lib>>,
          warns |-> << >>, raised |-> None, ctor |-> "ok"]
    ELSE [error |-> OpenError, cdll |-> None, opens |-> <<lib>>,
          warns |-> << >>, raised |-> "RuntimeError: " \o LoadMsg(lib),
          ctor |-> "raised"]

\* Variant: an absent identifier is handed to ctypes.CDLL like any other.
init_result_opennone(lib, mand) ==
    IF lib \in DOMAIN Libraries
    THEN [error |-> None, cdll |-> lib, opens |-> <<lib>>,
          warns |-> << >>, raised |-> None, ctor |-> "ok"]
    ELSE IF mand
    THEN [error |-> OpenError, cdll |-> None, opens |-> <<lib>>,
          warns |-> << >>, raised |-> "RuntimeError: " \o LoadMsg(lib),
          ctor |-> "raised"]
    ELSE [error |-> OpenError, cdll |-> None, opens |-> <<lib>>,
          warns |-> <<LoadMsg(lib)>>, raised |-> None, ctor |-> "ok"]

\* Variant: a failed non-mandatory open warns but records no error.
init_result_noerror(lib, mand) ==
    IF lib = None
    THEN [error |-> UnavailableError, cdll |-> None, opens |-> << >>,
          warns |-> << >>, raised |-> None, ctor |-> "ok"]
    ELSE IF lib \in DOMAIN Libraries
    THEN [error |-> None, cdll |-> lib, opens |-> <<lib>>,
          warns |-> << >>, raised |-> None, ctor |-> "ok"]
    ELSE IF mand
    THEN [error |-> OpenError, cdll |-> None, opens |-> <<lib>>,
          warns |-> << >>, raised |-> "RuntimeError: " \o LoadMsg(lib),
          ctor |-> "raised"]
    ELSE [error |-> None, cdll |-> None, opens |-> <<lib>>,
          warns |-> <<LoadMsg(lib)>>, raised |-> None, ctor |-> "ok"]

\* ------------------------------------------------------ SoftLink.__init__
\* What __init__(libname, prefix, mandatory) leaves behind: the fields it sets,
\* the names it hands to ctypes.CDLL, the warnings it emits, what it raises.
init_result(lib, mand) ==
    IF lib = None
    THEN [error |-> UnavailableError, cdll |-> None, opens |-> << >>,
          warns |-> << >>, raised |-> None, ctor |-> "ok"]
    ELSE IF lib \in DOMAIN Libraries
    THEN [error |-> None, cdll |-> lib, opens |-> <<lib>>,
          warns |-> << >>, raised |-> None, ctor |-> "ok"]
    ELSE IF mand
    THEN [error |-> OpenError, cdll |-> None, opens |-> <<lib>>,
          warns |-> << >>, raised |-> "RuntimeError: " \o LoadMsg(lib),
          ctor |-> "raised"]
    ELSE [error |-> OpenError, cdll |-> None, opens |-> <<lib>>,
          warns |-> <<LoadMsg(lib)>>, raised |-> None, ctor |-> "ok"]

SoftLink_init(lib, pfx, mand) ==
    /\ ctor = "none"
    /\ libname' = lib
    /\ mandatory' = mand
    /\ prefix' = pfx
    /\ LET r == init_result(lib, mand)
       IN  /\ error' = r.error
           /\ cdll' = r.cdll
           /\ opened' = opened \o r.opens
           /\ warned' = warned \o r.warns
           /\ raised' = r.raised
           /\ ctor' = r.ctor
    /\ UNCHANGED <<hip, CUDA_TO_HIP_MAPPINGS, mapped, searched, gets, name,
                   ret, lookups, outcome, buffers, varsLapack>>

\* Variant: a missing symbol yields the null pointer, not the stub.
get_result_null(handle, isHip, map_list, pfx, nm) ==
    IF handle = None
    THEN [ret |-> FAIL_UNSUPPORTED, maps |-> << >>, searches |-> << >>]
    ELSE LET cudafuncname == pfx \o nm
             funcname == FuncName(isHip, map_list, pfx, nm)
         IN  [ret |-> Getattr(handle, funcname),
              maps |-> IF isHip THEN <<cudafuncname>> ELSE << >>,
              searches |-> <<funcname>>]

\* Variant: the handle only serves the first lookup of a loader.
get_result_once(handle, isHip, map_list, pfx, nm) ==
    IF handle = None \/ gets > 0
    THEN [ret |-> FAIL_UNSUPPORTED, maps |-> << >>, searches |-> << >>]
    ELSE LET cudafuncname == pfx \o nm
             funcname == FuncName(isHip, map_list, pfx, nm)
             func == Getattr(handle, funcname)
         IN  [ret |-> IF func = NULL THEN FAIL_NOT_FOUND ELSE func,
              maps |-> IF isHip THEN <<cudafuncname>> ELSE << >>,
              searches |-> <<funcname>>]

\* ----------------------------------------------------------- SoftLink.get
\* What get(name) does on a loader with handle `handle`: the pointer it
\* returns, the names it hands to get_hipfuncname and to getattr.
get_result(handle, isHip, map_list, pfx, nm) ==
    IF handle = None
    THEN [ret |-> FAIL_UNSUPPORTED, maps |-> << >>, searches |-> << >>]
    ELSE LET cudafuncname == pfx \o nm
             funcname == FuncName(isHip, map_list, pfx, nm)
             func == Getattr(handle, funcname)
         IN  [ret |-> IF func = NULL THEN FAIL_NOT_FOUND ELSE func,
              maps |-> IF isHip THEN <<cudafuncname>> ELSE << >>,
              searches |-> <<funcname>>]

SoftLink_get(nm) ==
    /\ ctor = "ok"
    /\ gets < MaxGets
    /\ gets' = gets + 1
    /\ name' = nm
    /\ outcome' = NotCalled
    /\ LET r == get_result(cdll, hip, CUDA_TO_HIP_MAPPINGS, prefix, nm)
       IN  /\ ret' = r.ret
           /\ lookups' = Append(lookups, [name |-> nm, ret |-> r.ret])
           /\ mapped' = mapped \o r.maps
           /\ searched' = searched \o r.searches
    /\ UNCHANGED <<hip, CUDA_TO_HIP_MAPPINGS, ctor, error, prefix, cdll,
                   mandatory, libname, raised, warned, opened, buffers,
                   varsLapack>>

\* ---------------------------------------------------------------- stubs
\* cdef int _fail_unsupported() nogil except -1
fail_unsupported ==
    [called |-> TRUE, value |-> -1, exception |-> "AssertionError",
     message |-> UnsupportedMsg, writes |-> FALSE]

\* Variant: the stub returns 0 without raising.
fail_not_found_silent ==
    [called |-> TRUE, value |-> 0, exception |-> None, message |-> None,
     writes |-> FALSE]

\* cdef int _fail_not_found() nogil except -1
fail_not_found ==
    [called |-> TRUE, value |-> -1, exception |-> "AssertionError",
     message |-> NotFoundMsg, writes |-> FALSE]

\* A vendor function returning status st: it may write the caller's buffers.
vendor_call(st) ==
    [called |-> TRUE, value |-> st, exception |-> None, message |-> None,
     writes |-> TRUE]

\* Calling through the pointer fp.
call_result(fp, st) ==
    IF fp = FAIL_UNSUPPORTED THEN fail_unsupported
    ELSE IF fp = FAIL_NOT_FOUND THEN fail_not_found
    ELSE vendor_call(st)

\* The caller invokes the entry point the last get returned.
Invoke(st) ==
    /\ ctor = "ok"
    /\ gets > 0
    /\ ~outcome.called
    /\ ret # NULL
    /\ outcome' = call_result(ret, st)
    /\ buffers' = IF outcome'.writes THEN "written" ELSE buffers
    /\ UNCHANGED <<hip, CUDA_TO_HIP_MAPPINGS, ctor, error, prefix, cdll,
                   mandatory, libname, raised, warned, opened, mapped,
                   searched, gets, name, ret, lookups, varsLapack>>

NextSoftLink ==
    \/ \E lib \in LibNames, pfx \in Prefixes, mand \in BOOLEAN :
           SoftLink_init(lib, pfx, mand)
    \/ \E nm \in Names : SoftLink_get(nm)
    \/ \E st \in VendorStatus : Invoke(st)

SpecSoftLink == InitSoftLink /\ [][NextSoftLink]_vars


\* =========================================================================
\* cupy_lapack.h
\* =========================================================================
\* ---------------------------------------------------------------- bounds
MaxDim == 2
MaxBatch == 3

\* Dimensions are small: every product below fits the C int it is computed in.
Dims == 1..MaxDim
Jobs == {"A", "S", "O", "N"}
BatchSizes == {-1} \cup (0..MaxBatch)
Handles == {77}
APtrs == {4096}
WPtrs == {0, 20480}
BufferSizes == {0, 64}
InfoPtrs == {24576}
SPtrs == {8192}
UPtrs == {12288}
VTPtrs == {16384}

\* What an uninitialised `status` can hold when it is read.
Indeterminate == {0, 7, -3}

Min(a, b) == IF a < b THEN a ELSE b

\* Variant: the status is not inspected, the loop never breaks.
Break_never(st) == FALSE

\* `if (status != 0) break;`
Break(st) == st # 0

\* Variant: the loop test admits one iteration too many.
LoopTest_le(i, batch_size) == i <= batch_size

\* The loop test `i < batch_size`.
LoopTest(i, batch_size) == i < batch_size

\* One vendor call as the vendor sees it (unused parameters are 0 / "-").
NoCall ==
    [fn |-> "none", item |-> 0, handle |-> 0, jobu |-> "-", jobvt |-> "-",
     m |-> 0, n |-> 0, k |-> 0, A |-> 0, lda |-> 0, S |-> 0, Tau |-> 0,
     U |-> 0, ldu |-> 0, VT |-> 0, ldvt |-> 0, Work |-> 0, lwork |-> 0,
     rwork |-> 0, devInfo |-> 0, status |-> 0]

\* ------------------------------------------------------------ gesvd_loop
\* Per-item advances of gesvd_loop (CUDA), in elements.
gesvd_A_stride(m, n) == m * n
gesvd_S_stride(m, n) == Min(m, n)
\* Variant: U always advances by a full m x m factor.
gesvd_U_stride_fixed(jobu, m, n) == m * m

gesvd_U_stride(jobu, m, n) ==
    IF jobu = "A" THEN m * m
    ELSE IF jobu = "S" THEN m * Min(m, n) ELSE 0
gesvd_VT_stride(jobvt, m, n) ==
    IF jobvt = "A" THEN n * n
    ELSE IF jobvt = "S" THEN n * Min(m, n) ELSE 0
info_stride == 1

\* The call gesvd_loop makes in the current iteration.
gesvd_call(a, l, st) ==
    [NoCall EXCEPT !.fn = "gesvd_loop", !.item = l.i, !.handle = a.handle,
        !.jobu = a.jobu, !.jobvt = a.jobvt, !.m = a.m, !.n = a.n,
        !.A = l.A, !.lda = a.m, !.S = l.S, !.U = l.U, !.ldu = a.m,
        !.VT = l.VT, !.ldvt = a.n, !.Work = l.Work,
        !.lwork = a.buffersize, !.rwork = NULL, !.devInfo = l.devInfo,
        !.status = st]

gesvd_advance(a, l, t) ==
    [l EXCEPT !.i = l.i + 1,
        !.A = l.A + gesvd_A_stride(a.m, a.n) * sizeof(t),
        !.S = l.S + gesvd_S_stride(a.m, a.n) * sizeof(real_type(t)),
        !.U = l.U + gesvd_U_stride(a.jobu, a.m, a.n) * sizeof(t),
        !.VT = l.VT + gesvd_VT_stride(a.jobvt, a.m, a.n) * sizeof(t),
        !.devInfo = l.devInfo + info_stride * sizeof("int")]

\* The locals of gesvd_loop (CUDA build) when the loop is entered.
gesvd_locals(a) ==
    [NoLocals EXCEPT !.k = Min(a.m, a.n), !.A = a.a_ptr, !.S = a.s_ptr,
        !.U = a.u_ptr, !.VT = a.vt_ptr, !.Work = a.w_ptr,
        !.devInfo = a.info_ptr]

\* Variant: the HIP build runs the loop of the CUDA build.
gesvd_entry_loop(isHip, a) ==
    [loc |-> gesvd_locals(a), status |-> [set |-> FALSE, value |-> 0],
     pc |-> "loop"]

\* Where gesvd_loop stands before its loop: the HIP build is a dummy stub,
\* `return 0;`, the CUDA build sets up its locals and enters the loop.
gesvd_entry(isHip, a) ==
    IF isHip
    THEN [loc |-> NoLocals, status |-> [set |-> TRUE, value |-> 0],
          pc |-> "return"]
    ELSE [loc |-> gesvd_locals(a), status |-> [set |-> FALSE, value |-> 0],
          pc |-> "loop"]

gesvd_loop_enter(t, a) ==
    /\ fn' = "gesvd_loop"
    /\ T' = t
    /\ args' = a
    /\ calls' = << >>
    /\ loc' = gesvd_entry(hip, a).loc
    /\ status' = gesvd_entry(hip, a).status
    /\ pc' = gesvd_entry(hip, a).pc
    /\ UNCHANGED <<hip, varsSoftLink, result>>

gesvd_loop_body(st) ==
    /\ pc = "loop"
    /\ fn = "gesvd_loop"
    /\ LoopTest(loc.i, args.batch_size)
    /\ calls' = Append(calls, gesvd_call(args, loc, st))
    /\ status' = [set |-> TRUE, value |-> st]
    /\ IF Break(st)
       THEN /\ pc' = "return"
            /\ loc' = loc
       ELSE /\ pc' = "loop"
            /\ loc' = gesvd_advance(args, loc, T)
    /\ UNCHANGED <<hip, varsSoftLink, fn, T, args, result>>

\* ------------------------------------------------------------ geqrf_loop
\* Variant: the matrix advances by the leading dimension times the columns.
geqrf_A_stride_lda(m, n, lda) == lda * n

\* Per-item advances of geqrf_loop (both builds), in elements.
geqrf_A_stride(m, n, lda) == m * n
geqrf_Tau_stride(m, n) == Min(m, n)

geqrf_call(a, l, st) ==
    [NoCall EXCEPT !.fn = "geqrf_loop", !.item = l.i, !.handle = a.handle,
        !.m = a.m, !.n = a.n, !.A = l.A, !.lda = a.lda, !.Tau = l.Tau,
        !.Work = l.Work, !.lwork = a.buffersize, !.devInfo = l.devInfo,
        !.status = st]

\* Variant: the workspace is advanced past the part the item used.
geqrf_advance_work(a, l, t) ==
    [l EXCEPT !.i = l.i + 1,
        !.A = l.A + geqrf_A_stride(a.m, a.n, a.lda) * sizeof(t),
        !.Tau = l.Tau + geqrf_Tau_stride(a.m, a.n) * sizeof(t),
        !.Work = l.Work + a.buffersize * sizeof(t),
        !.devInfo = l.devInfo + info_stride * sizeof("int")]

geqrf_advance(a, l, t) ==
    [l EXCEPT !.i = l.i + 1,
        !.A = l.A + geqrf_A_stride(a.m, a.n, a.lda) * sizeof(t),
        !.Tau = l.Tau + geqrf_Tau_stride(a.m, a.n) * sizeof(t),
        !.devInfo = l.devInfo + info_stride * sizeof("int")]

\* The locals of geqrf_loop when the loop is entered.
geqrf_locals(a) ==
    [NoLocals EXCEPT !.k = Min(a.m, a.n), !.A = a.a_ptr, !.Tau = a.tau_ptr,
        !.Work = a.w_ptr, !.devInfo = a.info_ptr]

\* The locals of geqrf_loop when item i is called.
RECURSIVE geqrf_locals_at(_, _, _)
geqrf_locals_at(a, t, i) ==
    IF i <= 0 THEN geqrf_locals(a)
    ELSE geqrf_advance(a, geqrf_locals_at(a, t, i - 1), t)

geqrf_loop_enter(t, a) ==
    /\ fn' = "geqrf_loop"
    /\ T' = t
    /\ args' = a
    /\ calls' = << >>
    /\ loc' = geqrf_locals(a)
    /\ status' = [set |-> FALSE, value |-> 0]
    /\ pc' = "loop"
    /\ UNCHANGED <<hip, varsSoftLink, result>>

geqrf_loop_body(st) ==
    /\ pc = "loop"
    /\ fn = "geqrf_loop"
    /\ LoopTest(loc.i, args.batch_size)
    /\ calls' = Append(calls, geqrf_call(args, loc, st))
    /\ status' = [set |-> TRUE, value |-> st]
    /\ IF Break(st)
       THEN /\ pc' = "return"
            /\ loc' = loc
       ELSE /\ pc' = "loop"
            /\ loc' = geqrf_advance(args, loc, T)
    /\ UNCHANGED <<hip, varsSoftLink, fn, T, args, result>>

\* ------------------------------------------------------------ orgqr_loop
\* Variant: the matrix advances by the working width, as in geqrf_loop.
orgqr_A_stride_n(m, n, origin_n) == m * n

\* Per-item advances of orgqr_loop (both builds), in elements.
orgqr_A_stride(m, n, origin_n) == m * origin_n
orgqr_Tau_stride(k) == k

orgqr_call(a, l, st) ==
    [NoCall EXCEPT !.fn = "orgqr_loop", !.item = l.i, !.handle = a.handle,
        !.m = a.m, !.n = a.n, !.k = a.k, !.A = l.A, !.lda = a.lda,
        !.Tau = l.Tau, !.Work = l.Work, !.lwork = a.buffersize,
        !.devInfo = l.devInfo, !.status = st]

orgqr_advance(a, l, t) ==
    [l EXCEPT !.i = l.i + 1,
        !.A = l.A + orgqr_A_stride(a.m, a.n, a.origin_n) * sizeof(t),
        !.Tau = l.Tau + orgqr_Tau_stride(a.k) * sizeof(t),
        !.devInfo = l.devInfo + info_stride * sizeof("int")]

\* Variant: the HIP build advances the matrix by the working width.
orgqr_A_stride_hip_n(m, n, origin_n) == m * n

\* The same advances in the HIP build of orgqr_loop.
orgqr_A_stride_hip(m, n, origin_n) == m * origin_n

orgqr_advance_hip(a, l, t) ==
    [l EXCEPT !.i = l.i + 1,
        !.A = l.A + orgqr_A_stride_hip(a.m, a.n, a.origin_n) * sizeof(t),
        !.Tau = l.Tau + orgqr_Tau_stride(a.k) * sizeof(t),
        !.devInfo = l.devInfo + info_stride * sizeof("int")]

\* The locals of orgqr_loop when the loop is entered.
orgqr_locals(a) ==
    [NoLocals EXCEPT !.k = a.k, !.A = a.a_ptr, !.Tau = a.tau_ptr,
        !.Work = a.w_ptr, !.devInfo = a.info_ptr]

\* The locals of orgqr_loop when item i is called, in the given build.
RECURSIVE orgqr_locals_at(_, _, _, _)
orgqr_locals_at(isHip, a, t, i) ==
    IF i <= 0 THEN orgqr_locals(a)
    ELSE IF isHip
         THEN orgqr_advance_hip(a, orgqr_locals_at(isHip, a, t, i - 1), t)
         ELSE orgqr_advance(a, orgqr_locals_at(isHip, a, t, i - 1), t)

orgqr_loop_enter(t, a) ==
    /\ fn' = "orgqr_loop"
    /\ T' = t
    /\ args' = a
    /\ calls' = << >>
    /\ loc' = orgqr_locals(a)
    /\ status' = [set |-> FALSE, value |-> 0]
    /\ pc' = "loop"
    /\ UNCHANGED <<hip, varsSoftLink, result>>

orgqr_loop_body(st) ==
    /\ pc = "loop"
    /\ fn = "orgqr_loop"
    /\ LoopTest(loc.i, args.batch_size)
    /\ calls' = Append(calls, orgqr_call(args, loc, st))
    /\ status' = [set |-> TRUE, value |-> st]
    /\ IF Break(st)
       THEN /\ pc' = "return"
            /\ loc' = loc
       ELSE /\ pc' = "loop"
            /\ loc' = IF hip THEN orgqr_advance_hip(args, loc, T)
                       ELSE orgqr_advance(args, loc, T)
    /\ UNCHANGED <<hip, varsSoftLink, fn, T, args, result>>

\* ------------------------------------------------------- `return status;`
\* The loop is left by its test or by break; the function returns status,
\* whatever it holds when no iteration assigned it.
loop_return(v) ==
    /\ \/ pc = "return"
       \/ pc = "loop" /\ ~LoopTest(loc.i, args.batch_size)
    /\ v \in (IF status.set THEN {status.value} ELSE Indeterminate)
    /\ result' = [returned |-> TRUE, value |-> v]
    /\ pc' = "done"
    /\ UNCHANGED <<hip, varsSoftLink, fn, T, args, loc, status, calls>>

\* ---------------------------------------------------------- the arguments
GesvdArgs ==
    { [NoArgs EXCEPT !.handle = h, !.jobu = ju, !.jobvt = jv, !.m = m,
          !.n = n, !.a_ptr = ap, !.s_ptr = sp, !.u_ptr = up,
          !.vt_ptr = vp, !.w_ptr = wp, !.buffersize = bs,
          !.info_ptr = ip, !.batch_size = b] :
        h \in Handles, ju \in Jobs, jv \in Jobs, m \in Dims, n \in Dims,
        ap \in APtrs, sp \in SPtrs, up \in UPtrs, vp \in VTPtrs,
        wp \in WPtrs, bs \in {64}, ip \in {24576}, b \in BatchSizes }

GeqrfArgs ==
    { [NoArgs EXCEPT !.handle = h, !.m = m, !.n = n, !.a_ptr = ap,
          !.lda = m + pad, !.tau_ptr = tp, !.w_ptr = wp,
          !.buffersize = bs, !.info_ptr = ip, !.batch_size = b] :
        h \in Handles, m \in Dims, n \in Dims, pad \in {0, 1}, ap \in APtrs,
        tp \in SPtrs, wp \in WPtrs, bs \in BufferSizes, ip \in InfoPtrs, b \in BatchSizes }

OrgqrArgs ==
    { [NoArgs EXCEPT !.handle = h, !.m = m, !.n = n, !.k = k, !.a_ptr = ap,
          !.lda = m, !.tau_ptr = tp, !.w_ptr = wp, !.buffersize = bs,
          !.info_ptr = ip, !.batch_size = b, !.origin_n = on] :
        h \in Handles, m \in Dims, n \in Dims \cup {6}, k \in Dims,
        ap \in APtrs, tp \in SPtrs, wp \in WPtrs, bs \in BufferSizes,
        ip \in InfoPtrs, b \in BatchSizes, on \in Dims \cup {10} }

InitLapack ==
    /\ hip \in BOOLEAN
    /\ CUDA_TO_HIP_MAPPINGS = << >>
    /\ IdleSoftLink
    /\ IdleLapack

NextLapack ==
    \/ pc = "idle" /\ \E t \in Types, a \in GesvdArgs : gesvd_loop_enter(t, a)
    \/ \E st \in VendorStatus : gesvd_loop_body(st)
    \/ pc = "idle" /\ \E t \in Types, a \in GeqrfArgs : geqrf_loop_enter(t, a)
    \/ \E st \in VendorStatus : geqrf_loop_body(st)
    \/ pc = "idle" /\ \E t \in Types, a \in OrgqrArgs : orgqr_loop_enter(t, a)
    \/ \E st \in VendorStatus : orgqr_loop_body(st)
    \/ \E v \in Indeterminate \cup VendorStatus : loop_return(v)

SpecLapack == InitLapack /\ [][NextLapack]_vars

\* A dispatcher that was called keeps running: the call is synchronous and
\* each vendor call returns.
LapackStep ==
    \/ \E st \in VendorStatus : gesvd_loop_body(st)
    \/ \E st \in VendorStatus : geqrf_loop_body(st)
    \/ \E st \in VendorStatus : orgqr_loop_body(st)
    \/ \E v \in Indeterminate \cup VendorStatus : loop_return(v)

SpecLapackFair == SpecLapack /\ WF_vars(LapackStep)


\* =========================================================================
\* Properties
\* =========================================================================
Last(seq) == seq[Len(seq)]
Range(seq) == {seq[i] : i \in 1..Len(seq)}

\* The 0-based item number of the j-th call and the byte size of T.
Item(j) == j - 1
ElemSize == sizeof(T)

\* C1: in every dispatcher, items are called in order; every call before the
\* last returned zero; a call that returned nonzero is the last one (item k
\* failing means exactly k+1 calls and none for a later item); and the value
\* returned after a failing call is exactly that call's status.
C1_HaltsOnFirstNonzero ==
    /\ Len(calls) <= (IF args.batch_size > 0 THEN args.batch_size ELSE 0)
    /\ \A j \in 1..Len(calls) :
          /\ calls[j].item = Item(j)
          /\ calls[j].fn = fn
          /\ j < Len(calls) => calls[j].status = 0
          /\ calls[j].status # 0 =>
                /\ Len(calls) = Item(j) + 1
                /\ pc \in {"return", "done"}
                /\ result.returned => result.value = calls[j].status

C1_Witness ==
    /\ fn = "orgqr_loop"
    /\ result.returned
    /\ args.batch_size = 3
    /\ Len(calls) = 2
    /\ calls[1].status = 0
    /\ calls[2].status = 7
    /\ result.value = 7

Kind(fp, handle) ==
    IF fp = FAIL_UNSUPPORTED THEN "UnsupportedStub"
    ELSE IF fp = FAIL_NOT_FOUND THEN "NotFoundStub"
    ELSE IF /\ handle # None
            /\ fp - LibBase[handle] \in 1..Len(Libraries[handle])
         THEN "Valid"
         ELSE "Uncallable"

\* The search name for the qualified name q, read off the mapping table: the
\* first equivalent of the first entry that has q as a key, else q.
ExpectedSearch(q) ==
    LET tbl == CUDA_TO_HIP_MAPPINGS
        hits == {i \in 1..Len(tbl) : q \in DOMAIN tbl[i]}
    IN  IF hits = {} THEN q
        ELSE LET first == CHOOSE i \in hits : \A h \in hits : i <= h
             IN  Head(tbl[first][q])

\* C3: whatever the loader's state and the name, get returns a callable
\* entry point (Valid, UnsupportedStub or NotFoundStub), never a null one,
\* and nothing fails until that entry point is invoked; in a HIP build too.
C3_GetAlwaysCallable ==
    (ctor = "ok" /\ gets > 0) =>
        /\ ret # NULL
        /\ Kind(ret, cdll) \in {"Valid", "UnsupportedStub", "NotFoundStub"}
        /\ raised = None
        /\ ~outcome.called => outcome.exception = None

C3_Witness ==
    /\ hip
    /\ ctor = "ok"
    /\ cdll # None
    /\ gets > 0
    /\ Len(mapped) > 0
    /\ Kind(ret, cdll) = "NotFoundStub"
    /\ ~outcome.called

\* C4: invoking either stub ends in an AssertionError, never in a success
\* status, and leaves the caller's buffers as they were; the message tells
\* which of the two stubs it was.
C4_StubsAlwaysFail ==
    [][(ret \in {FAIL_UNSUPPORTED, FAIL_NOT_FOUND}
        /\ ~outcome.called /\ outcome'.called) =>
            /\ outcome'.exception = "AssertionError"
            /\ outcome'.value # 0
            /\ buffers' = buffers
            /\ outcome'.message =
                  (IF ret = FAIL_UNSUPPORTED THEN UnsupportedMsg
                   ELSE NotFoundMsg)
            /\ UnsupportedMsg # NotFoundMsg]_vars

C4_Witness ==
    /\ ret = FAIL_NOT_FOUND
    /\ outcome.called
    /\ outcome.exception = "AssertionError"
    /\ gets = 2
    /\ buffers = "written"

\* C5: in a HIP build the name searched in the library is the first
\* equivalent of the first table entry holding prefix+name, and prefix+name
\* itself when no entry holds it.
C5_CrossVendorName ==
    (hip /\ ctor = "ok" /\ cdll # None /\ gets > 0) =>
        /\ Last(mapped) = prefix \o name
        /\ Last(searched) = ExpectedSearch(prefix \o name)
        /\ Len(searched) = gets

C5_Witness ==
    /\ hip
    /\ ctor = "ok"
    /\ cdll = "libhipfoo.so"
    /\ gets > 0
    /\ prefix \o name = "foo_bar"
    /\ Len(CUDA_TO_HIP_MAPPINGS) = 3
    /\ Last(searched) = "hip_bar"

\* The library identifier is present but cannot be opened.
Unopenable == libname # None /\ libname \notin DOMAIN Libraries

\* C6: constructing a mandatory binding on a library that cannot be opened
\* raises (wrapping the open error), leaves no loader to use and warns of
\* nothing.
C6_MandatoryFailsFast ==
    (ctor # "none" /\ mandatory /\ Unopenable) =>
        /\ ctor = "raised"
        /\ raised = "RuntimeError: " \o LoadMsg(libname)
        /\ warned = << >>
        /\ cdll = None
        /\ gets = 0
        /\ ~outcome.called

C6_Witness ==
    /\ ctor = "raised"
    /\ mandatory
    /\ libname = "libmissing.so"
    /\ opened = <<"libmissing.so">>

\* C7: constructing a non-mandatory binding on a library that cannot be
\* opened succeeds: the open error is recorded, one warning is emitted, there
\* is no handle, and every get returns the UnsupportedStub.
C7_OptionalDegrades ==
    (ctor # "none" /\ ~mandatory /\ Unopenable) =>
        /\ ctor = "ok"
        /\ raised = None
        /\ error = OpenError
        /\ warned = <<LoadMsg(libname)>>
        /\ cdll = None
        /\ gets > 0 => ret = FAIL_UNSUPPORTED

C7_Witness ==
    /\ ctor = "ok"
    /\ ~mandatory
    /\ libname = "libmissing.so"
    /\ gets = 2
    /\ ret = FAIL_UNSUPPORTED

\* C8: a loader built with no library identifier opens nothing, records the
\* 'library unavailable' error and has no handle; its gets return the
\* UnsupportedStub without translating or searching any name, and invoking
\* that stub raises the 'not supported in the current version' error.
C8_AbsentLibrary ==
    (ctor # "none" /\ libname = None) =>
        /\ opened = << >>
        /\ error = UnavailableError
        /\ cdll = None
        /\ mapped = << >>
        /\ searched = << >>
        /\ gets > 0 => ret = FAIL_UNSUPPORTED
        /\ outcome.called =>
              /\ outcome.exception = "AssertionError"
              /\ outcome.message = UnsupportedMsg

C8_Witness ==
    /\ ctor = "ok"
    /\ libname = None
    /\ hip
    /\ gets > 0
    /\ outcome.called
    /\ outcome.message = UnsupportedMsg

\* C9: on an opened library, get returns the address of the symbol named
\* prefix+name (translated in a HIP build) exactly when the library exports
\* it and the NotFoundStub exactly when it does not, never the
\* UnsupportedStub; prefix "foo_" and name "bar" resolve foo_bar.
C9_OpenedLookup ==
    (ctor = "ok" /\ cdll # None /\ gets > 0) =>
        LET q == prefix \o name
            sname == IF hip THEN ExpectedSearch(q) ELSE q
            exported == sname \in Range(Libraries[cdll])
        IN  /\ ret # FAIL_UNSUPPORTED
            /\ exported <=>
                  /\ Kind(ret, cdll) = "Valid"
                  /\ Libraries[cdll][ret - LibBase[cdll]] = sname
            /\ ~exported <=> ret = FAIL_NOT_FOUND
            /\ (~hip /\ prefix = "foo_" /\ name = "bar") =>
                  /\ Last(searched) = "foo_bar"
                  /\ (cdll = "libfoo.so" => ret = LibBase["libfoo.so"] + 1)

C9_Witness ==
    /\ ~hip
    /\ ctor = "ok"
    /\ cdll = "libfoo.so"
    /\ prefix = "foo_"
    /\ name = "bar"
    /\ gets > 0
    /\ Kind(ret, cdll) = "Valid"
    /\ Libraries[cdll][ret - LibBase[cdll]] = "foo_bar"

\* C10: in orgqr_loop the i-th call receives A at base + i*m*origin_n
\* elements, whatever the working width n is.
C10_OrgqrOriginStride ==
    \A j \in 1..Len(calls) :
        fn = "orgqr_loop" =>
            calls[j].A =
                args.a_ptr + Item(j) * (args.m * args.origin_n) * ElemSize

C10_Witness ==
    /\ fn = "orgqr_loop"
    /\ args.origin_n = 10
    /\ args.n = 6
    /\ args.m = 2
    /\ args.batch_size = 3
    /\ Len(calls) = 3
    /\ T = "double"
    /\ calls[2].A - calls[1].A = 2 * 10 * 8
    /\ calls[3].A - calls[2].A = 2 * 10 * 8
    /\ result.returned

\* C11 (as claimed): the CUDA and the HIP build of orgqr_loop advance the
\* matrix differently, so with n # origin_n they pass different matrix
\* addresses from the second item on.
C11_VariantsDiffer ==
    \A j \in 2..Len(calls) :
        (fn = "orgqr_loop" /\ args.n # args.origin_n) =>
            orgqr_locals_at(TRUE, args, T, Item(j)).A #
                orgqr_locals_at(FALSE, args, T, Item(j)).A

\* C11 (amended): both builds of orgqr_loop advance the matrix by
\* m * origin_n, so for every input, n # origin_n included, the two builds
\* pass the same matrix address for every item, the one the call received.
C11_VariantsAgree ==
    \A j \in 1..Len(calls) :
        fn = "orgqr_loop" =>
            /\ orgqr_locals_at(TRUE, args, T, Item(j)).A = calls[j].A
            /\ orgqr_locals_at(FALSE, args, T, Item(j)).A = calls[j].A

C11_Witness ==
    /\ fn = "orgqr_loop"
    /\ hip
    /\ args.n = 6
    /\ args.origin_n = 10
    /\ args.m = 2
    /\ T = "float"
    /\ Len(calls) = 3
    /\ calls[2].A = args.a_ptr + 2 * 10 * 4
    /\ orgqr_locals_at(FALSE, args, T, 2).A = calls[3].A

\* C12: in the HIP build gesvd_loop is a no-op: whatever the arguments and
\* the batch size, it makes no vendor call, sets up no buffer pointer and
\* returns 0.
C12_HipGesvdNoOp ==
    (hip /\ fn = "gesvd_loop") =>
        /\ calls = << >>
        /\ loc = NoLocals
        /\ pc \in {"return", "done"}
        /\ status = [set |-> TRUE, value |-> 0]
        /\ result.returned => result.value = 0

C12_Witness ==
    /\ hip
    /\ fn = "gesvd_loop"
    /\ args.batch_size = 3
    /\ args.jobu = "A"
    /\ result.returned
    /\ result.value = 0
    /\ calls = << >>

\* The j-th vendor call of the current HIP dispatch, had the dispatcher been
\* given the arguments a2 and the vendor returned what it returned.
HipCallWith(a2, j) ==
    IF fn = "geqrf_loop"
    THEN geqrf_call(a2, geqrf_locals_at(a2, T, Item(j)), calls[j].status)
    ELSE orgqr_call(a2, orgqr_locals_at(TRUE, a2, T, Item(j)),
                    calls[j].status)

\* C13 (as claimed): in the HIP build geqrf_loop and orgqr_loop ignore
\* w_ptr, buffersize and info_ptr: a dispatch that differs only in these
\* three arguments issues the same vendor calls with the same arguments.
C13_HipIgnoresWorkspace ==
    (hip /\ fn \in {"geqrf_loop", "orgqr_loop"}) =>
        \A j \in 1..Len(calls) :
            \A wp \in WPtrs, bs \in BufferSizes, ip \in InfoPtrs :
                HipCallWith([args EXCEPT !.w_ptr = wp, !.buffersize = bs,
                                         !.info_ptr = ip], j) = calls[j]

\* C14: in the CUDA gesvd_loop the i-th call receives U at
\* base + i*SU elements and VT at base + i*SVT elements, where, with
\* k = min(m,n), SU is m*m for jobu 'A', m*k for 'S' and 0 otherwise, and
\* SVT is n*n for jobvt 'A', n*k for 'S' and 0 otherwise; with a 0 stride
\* every item receives the same address.
C14_GesvdModeStrides ==
    \A j \in 1..Len(calls) :
        fn = "gesvd_loop" =>
            LET c == calls[j]
                k == IF args.m < args.n THEN args.m ELSE args.n
                SU == CASE args.jobu = "A" -> args.m * args.m
                        [] args.jobu = "S" -> args.m * k
                        [] OTHER -> 0
                SVT == CASE args.jobvt = "A" -> args.n * args.n
                         [] args.jobvt = "S" -> args.n * k
                         [] OTHER -> 0
            IN  /\ c.U = args.u_ptr + Item(j) * SU * ElemSize
                /\ c.VT = args.vt_ptr + Item(j) * SVT * ElemSize
                /\ args.jobu \in {"O", "N"} => c.U = calls[1].U
                /\ args.jobvt \in {"O", "N"} => c.VT = calls[1].VT

C14_Witness ==
    /\ fn = "gesvd_loop"
    /\ ~hip
    /\ args.jobu = "S"
    /\ args.jobvt = "N"
    /\ args.m = 2
    /\ args.n = 1
    /\ T = "doublecomplex"
    /\ Len(calls) = 3
    /\ calls[3].U = args.u_ptr + 2 * (2 * 1) * 16
    /\ calls[3].VT = args.vt_ptr

C16_AllSuccessReturnsZero ==
    (/\ result.returned
     /\ ~(hip /\ fn = "gesvd_loop")
     /\ \A j \in 1..Len(calls) : calls[j].status = 0) =>
        /\ result.value = 0
        /\ Len(calls) = (IF args.batch_size > 0 THEN args.batch_size ELSE 0)

\* C17: every dispatch terminates: once entered, the dispatcher reaches its
\* return; it makes at most batch_size vendor calls, for items 0, 1, 2, ...
\* in this order and each once; a call that failed is the last one; and
\* after the return nothing more is called.
C17_Terminates ==
    /\ [](/\ Len(calls) <= (IF args.batch_size > 0 THEN args.batch_size
                            ELSE 0)
          /\ \A j \in 1..Len(calls) :
                /\ calls[j].item = Item(j)
                /\ calls[j].status # 0 => j = Len(calls)
          /\ pc = "loop" => loc.i = Len(calls))
    /\ [][/\ Len(calls') >= Len(calls)
          /\ Len(calls') > Len(calls) =>
                /\ Len(calls') = Len(calls) + 1
                /\ calls = << >> \/ Last(calls).status = 0
          /\ pc = "done" => UNCHANGED varsLapack]_vars
    /\ (pc \in {"loop", "return"}) ~> (pc = "done")

C17_Witness ==
    /\ pc = "done"
    /\ fn = "geqrf_loop"
    /\ args.batch_size = 3
    /\ Len(calls) = 2
    /\ calls[2].item = 1
    /\ calls[2].status = 1
    /\ result.value = 1

\* C18 (as claimed): every SoftLink whose construction with mandatory=True
\* completed has an open library handle and none of its lookups returns the
\* UnsupportedStub, whatever the library identifier, None included.
C18_NoDegradedMandatory ==
    (ctor = "ok" /\ mandatory) =>
        /\ cdll # None
        /\ gets > 0 => ret # FAIL_UNSUPPORTED

\* C18 (amended): every SoftLink whose construction with mandatory=True and
\* a library identifier that is present completed has an open library handle
\* and none of its lookups returns the UnsupportedStub; with an absent
\* identifier (None) construction completes in the failed state even when
\* mandatory, and its lookups return the UnsupportedStub.
C18_NoDegradedMandatoryPresent ==
    (ctor = "ok" /\ mandatory) =>
        IF libname # None
        THEN /\ cdll = libname
             /\ error = None
             /\ \A i \in 1..Len(lookups) : lookups[i].ret # FAIL_UNSUPPORTED
        ELSE /\ cdll = None
             /\ error = UnavailableError
             /\ \A i \in 1..Len(lookups) : lookups[i].ret = FAIL_UNSUPPORTED

C18_Witness ==
    /\ ctor = "ok"
    /\ mandatory
    /\ libname = "libfoo.so"
    /\ Len(lookups) = 2
    /\ lookups[1].ret = FAIL_NOT_FOUND
    /\ Kind(lookups[2].ret, cdll) = "Valid"

\* C19: a get changes nothing of the loader (handle, error, prefix) nor of
\* its surroundings, the loader stays opened or failed as constructed, and
\* all the gets made for one name returned the same pointer.
C19_GetReadOnly ==
    [][gets' # gets =>
          /\ UNCHANGED <<cdll, error, prefix, ctor, libname, mandatory,
                         hip, CUDA_TO_HIP_MAPPINGS, warned, opened, raised>>
          /\ Len(lookups') = gets'
          /\ \A i, j \in 1..Len(lookups') :
                lookups'[i].name = lookups'[j].name =>
                    lookups'[i].ret = lookups'[j].ret]_vars

C19_Witness ==
    /\ ctor = "ok"
    /\ cdll = "libhipfoo.so"
    /\ hip
    /\ Len(lookups) = 2
    /\ lookups[1].name = lookups[2].name
    /\ lookups[1].ret = lookups[2].ret
    /\ Kind(lookups[2].ret, cdll) = "Valid"

\* C20: in a constructed SoftLink the recorded error and the handle exclude
\* each other: error is None exactly when the handle is present; so the
\* test get makes on the handle agrees with the failed state in error.
C20_ErrorIffNoHandle ==
    ctor = "ok" =>
        /\ (error = None) <=> (cdll # None)
        /\ (error # None) <=> (cdll = None)
        /\ \A i \in 1..Len(lookups) :
              (lookups[i].ret = FAIL_UNSUPPORTED) <=> (error # None)

C20_Witness ==
    /\ ctor = "ok"
    /\ libname = "libmissing.so"
    /\ error = OpenError
    /\ cdll = None
    /\ Len(lookups) = 2
    /\ lookups[2].ret = FAIL_UNSUPPORTED

====
